---------------------------- MODULE Spec2Model ----------------------------
(***************************************************************************)
(* Quest Board front end: the quest read model (useQuest) and detail page, *)
(* the quest list model (useQuests) and the quest creation form, each in   *)
(* its "Grove" and (where the repository has one) "simple" variant.        *)
(*                                                                         *)
(* One page component is mounted per behaviour (page, variant are chosen   *)
(* in Init).  An async function is a run record whose pc names the await   *)
(* it is suspended at; the settling of that await is one action.           *)
(* A nullable value is None (<<>>) or Some(v) (<<v>>).                     *)
(***************************************************************************)
EXTENDS Integers, Sequences, FiniteSets, TLC

\* ------------------------------------------------------------ bounds
\* Largest clock value (ms) the model lets Date.now() reach.
MaxNow == 3000
\* Largest value questCount() returns.
MaxCount == 2
\* Largest number of pin requests one visit of the create page issues.
MaxPins == 1
\* Largest number of submissions one visit of the detail page starts.
MaxSubmits == 1
\* Largest number of winner selections one visit of the detail page starts.
MaxSelects == 1

\* ------------------------------------------------------------ values
None == <<>>
Some(v) == <<v>>

\* Route parameters the detail page is opened with (BigInt(params.id)).
RouteIds == {-1, 0, 1}

\* Addresses are strings, kept as tuples of characters so that toLowerCase
\* is computed character by character.
CreatorAddr == <<"A", "b">>
WalletAddrs == {<<"a", "B">>, <<"c", "d">>, <<>>}

\* Content identifiers a record carries ("" is the empty pointer).
Cids == {"", "Qm1"}

\* Deadlines (Unix seconds) of the records on chain.
Deadlines == {2}

\* What getQuest returns: the tuple read at [id]/page.tsx:58.
Records ==
  [creator : {CreatorAddr}, cid : Cids, prize : {5}, deadline : Deadlines,
   cancelled : BOOLEAN, finalized : BOOLEAN, participantsCount : {0}]

\* JSON documents the content store answers with.
Metas == {[title |-> "T", description |-> "D"], [title |-> "", description |-> ""]}

\* Values a rejected read or fetch throws: an Error with a message, and a
\* plain object carrying a message (not an Error instance).
Thrown == {[isError |-> TRUE, message |-> "rpc down"],
           [isError |-> FALSE, message |-> "obj"]}

VARIABLES
  page,            \* "detail" | "list" | "create": the page component mounted;
                   \* "api": the /api/pin route handler; "config": lib/chain alone
  variant,         \* "grove" | "simple"
  phase,           \* "rendered" (first render, effects pending) | "mounted" | "unmounted"
  now,             \* Date.now(), in ms
  \* --- hook state shared by name: useQuest / useQuests / CreateQuest
  loading, error,
  \* --- useQuest + QuestDetail
  routeId, resolvedParams, quest, metadata, runs, wallet,
  afterDeadline, memoNow,
  \* --- network requests issued so far
  getQuestLog, fetchLog, countLog,
  \* --- useQuests
  items, listRun,
  \* --- CreateQuest
  title, description, prize, deadline, address, deadlineValid, deadlineCheckedAt,
  transactionCalls, createRun, pinLog,
  \* --- QuestDetail submission section (transactionCalls and pinLog as above)
  link, submitting, submitRun, walletLog,
  showSubmissionSuccess, submissionCountdown, timers,
  \* --- QuestDetail winner selection: one record per call of handleSelectWinners
  winnerRuns,
  \* --- POST /api/pin
  apiRun, apiResponse,
  \* --- lib/chain
  env, activeChain, questboardAddress

netVars == <<getQuestLog, fetchLog, countLog>>
detailVars == <<routeId, resolvedParams, quest, metadata, runs, wallet, afterDeadline, memoNow>>
listVars == <<items, listRun>>
createVars == <<title, description, prize, deadline, address, deadlineValid,
                deadlineCheckedAt, transactionCalls, createRun, pinLog>>
formVars == <<title, description, prize, deadline, address, deadlineValid,
              deadlineCheckedAt, createRun>>
submitVars == <<link, submitting, submitRun, walletLog, showSubmissionSuccess,
                submissionCountdown, timers>>
apiVars == <<apiRun, apiResponse>>
envVars == <<env, activeChain, questboardAddress>>
vars == <<page, variant, phase, now, loading, error, netVars, detailVars, listVars, createVars,
          submitVars, winnerRuns, apiVars, envVars>>

\* ------------------------------------------------------------ helpers

LowerChar(c) ==
  CASE c = "A" -> "a" [] c = "B" -> "b" [] c = "C" -> "c" [] c = "D" -> "d" [] OTHER -> c

\* String.prototype.toLowerCase
ToLowerCase(s) == [i \in 1..Len(s) |-> LowerChar(s[i])]

\* Math.floor(ms / 1000)
FloorSeconds(ms) == ms \div 1000

\* catch (e): e instanceof Error ? e.message : "failed to load quest" in the
\* Grove variant; e?.message || "failed to load quest" in the simple one.
ErrorMessage(v, e) ==
  IF v = "grove"
  THEN IF e.isError THEN e.message ELSE "failed to load quest"
  ELSE IF e.message # "" THEN e.message ELSE "failed to load quest"

\* if (cid): a non-empty string is truthy.
HasCid_always(cid) == TRUE
HasCid(cid) == cid # ""

\* The id the page passes to useQuest.
DetailId ==
  IF resolvedParams = None THEN 0 ELSE resolvedParams[1]

\* The QuestData object setQuest stores.
MkQuest(id, q) ==
  [questId |-> id, creator |-> q.creator, cid |-> q.cid, prize |-> q.prize,
   deadline |-> q.deadline, cancelled |-> q.cancelled, finalized |-> q.finalized,
   participantsCount |-> q.participantsCount]

\* quest && Math.floor(Date.now() / 1000) > quest.deadline
AfterDeadlineAt_noFloor(q, ms) ==
  IF q = None THEN None ELSE Some(ms > q[1].deadline * 1000)
AfterDeadlineAt(q, ms) ==
  IF q = None THEN None ELSE Some(FloorSeconds(ms) > q[1].deadline)

AfterDeadlineTruthy == afterDeadline = Some(TRUE)

\* The effect body up to its first await: a new run, suspended at getQuest.
NewRun(id) == [questId |-> id, mounted |-> TRUE, pc |-> "read", end |-> ""]

\* The effect cleanup: mounted = false in every run's closure.
Cleanup(rs) == [i \in 1..Len(rs) |-> [rs[i] EXCEPT !.mounted = FALSE]]


\* ------------------------------------------------------------ detail page

\* The params promise handed to the page is settled by the router; the
\* continuation of `await Promise.resolve(params)` is a microtask, which runs
\* before any network completion or user event is delivered.
ParamsSettled == page # "detail" \/ variant = "simple" \/ resolvedParams # None

\* First commit of QuestDetail: the useQuest effect starts run() for the id
\* of the first render (0 while the params are unresolved).
DetailMount ==
  /\ page = "detail" /\ phase = "rendered"
  /\ phase' = "mounted"
  /\ runs' = <<NewRun(DetailId)>>
  /\ getQuestLog' = Append(getQuestLog, DetailId)
  /\ UNCHANGED <<winnerRuns, submitVars, apiVars, envVars, page, variant, now, loading, error, fetchLog, countLog, routeId,
                 resolvedParams, quest, metadata, wallet, afterDeadline, memoNow,
                 listVars, createVars>>

\* resolveParams(): setResolvedParams, then the re-render; when the id
\* changed, the effect is cleaned up and run again for the new id.
ResolveParams ==
  /\ page = "detail" /\ variant = "grove" /\ phase = "mounted"
  /\ resolvedParams = None
  /\ resolvedParams' = Some(routeId)
  /\ IF routeId # 0
     THEN /\ runs' = Append(Cleanup(runs), NewRun(routeId))
          /\ getQuestLog' = Append(getQuestLog, routeId)
     ELSE UNCHANGED <<runs, getQuestLog>>
  /\ UNCHANGED <<winnerRuns, submitVars, apiVars, envVars, page, variant, phase, now, loading, error, fetchLog, countLog,
                 routeId, quest, metadata, wallet, afterDeadline, memoNow,
                 listVars, createVars>>

RunAt(i, pc) ==
  /\ page = "detail" /\ phase # "rendered" /\ ParamsSettled
  /\ i \in DOMAIN runs /\ runs[i].pc = pc

RunEnds(i, how) == runs' = [runs EXCEPT ![i].pc = "done", ![i].end = how]

\* getQuest resolves with the record q.
ReadReturn(i, q) ==
  /\ RunAt(i, "read")
  /\ IF ~runs[i].mounted
     THEN \* if (!mounted) return;  and the finally block still runs
          /\ RunEnds(i, "stale")
          /\ loading' = FALSE
          /\ UNCHANGED <<quest, afterDeadline, memoNow, fetchLog>>
     ELSE /\ quest' = Some(MkQuest(runs[i].questId, q))
          /\ afterDeadline' = AfterDeadlineAt(quest', now)
          /\ memoNow' = FloorSeconds(now)
          /\ IF HasCid(q.cid)
             THEN /\ fetchLog' = Append(fetchLog, q.cid)
                  /\ runs' = [runs EXCEPT ![i].pc = "fetch"]
                  /\ UNCHANGED loading
             ELSE /\ RunEnds(i, "noCid")
                  /\ loading' = FALSE
                  /\ UNCHANGED fetchLog
  /\ UNCHANGED <<winnerRuns, submitVars, apiVars, envVars, page, variant, phase, now, error, getQuestLog, countLog, routeId,
                 resolvedParams, metadata, wallet, listVars, createVars>>

\* getQuest rejects with e: catch, then finally.
ReadThrow_silent(i, e) ==
  /\ RunAt(i, "read")
  /\ RunEnds(i, "readThrow")
  /\ loading' = FALSE
  /\ UNCHANGED <<winnerRuns, submitVars, apiVars, envVars, page, variant, phase, now, error, netVars, routeId, resolvedParams, quest,
                 metadata, wallet, afterDeadline, memoNow, listVars, createVars>>
ReadThrow(i, e) ==
  /\ RunAt(i, "read")
  /\ error' = Some(ErrorMessage(variant, e))
  /\ RunEnds(i, "readThrow")
  /\ loading' = FALSE
  /\ UNCHANGED <<winnerRuns, submitVars, apiVars, envVars, page, variant, phase, now, netVars, routeId, resolvedParams, quest,
                 metadata, wallet, afterDeadline, memoNow, listVars, createVars>>

\* fetch(ipfsCidUrl(cid)) resolves with a response; r.ok decides.
FetchReturn(i, ok) ==
  /\ RunAt(i, "fetch")
  /\ IF ok
     THEN /\ runs' = [runs EXCEPT ![i].pc = "json"]
          /\ UNCHANGED loading
     ELSE /\ RunEnds(i, "notOk")
          /\ loading' = FALSE
  /\ UNCHANGED <<winnerRuns, submitVars, apiVars, envVars, page, variant, phase, now, error, netVars, routeId, resolvedParams, quest,
                 metadata, wallet, afterDeadline, memoNow, listVars, createVars>>

\* fetch rejects: the only catch is the outer one.
FetchReject(i, e) ==
  /\ RunAt(i, "fetch")
  /\ error' = Some(ErrorMessage(variant, e))
  /\ RunEnds(i, "fetchReject")
  /\ loading' = FALSE
  /\ UNCHANGED <<winnerRuns, submitVars, apiVars, envVars, page, variant, phase, now, netVars, routeId, resolvedParams, quest,
                 metadata, wallet, afterDeadline, memoNow, listVars, createVars>>

\* r.json() resolves with the document m: setMetadata(m).
JsonReturn(i, m) ==
  /\ RunAt(i, "json")
  /\ metadata' = Some(m)
  /\ RunEnds(i, "ok")
  /\ loading' = FALSE
  /\ UNCHANGED <<winnerRuns, submitVars, apiVars, envVars, page, variant, phase, now, error, netVars, routeId, resolvedParams, quest,
                 wallet, afterDeadline, memoNow, listVars, createVars>>

\* r.json() rejects (the body is not JSON): the outer catch again.
JsonThrow(i, e) ==
  /\ RunAt(i, "json")
  /\ error' = Some(ErrorMessage(variant, e))
  /\ RunEnds(i, "jsonThrow")
  /\ loading' = FALSE
  /\ UNCHANGED <<winnerRuns, submitVars, apiVars, envVars, page, variant, phase, now, netVars, routeId, resolvedParams, quest,
                 metadata, wallet, afterDeadline, memoNow, listVars, createVars>>

\* if (error): null and "" are falsy.
ErrorTruthy == error # None /\ error[1] # ""

\* What QuestDetail returns.
View ==
  IF page # "detail" \/ phase = "unmounted" THEN "none"
  ELSE IF variant = "grove" /\ resolvedParams = None THEN "skeleton"
  ELSE IF variant = "grove" /\ DetailId <= 0 THEN "invalid"
  ELSE IF loading THEN "skeleton"
  ELSE IF ErrorTruthy THEN "error"
  ELSE "content"

QFinalized == quest # None /\ quest[1].finalized
QCancelled == quest # None /\ quest[1].cancelled

\* The status badges of the content view.
Badges ==
  IF variant = "grove"
  THEN {b \in {"Finalized", "Cancelled", "Ended", "Open"} :
          \/ b = "Finalized" /\ QFinalized
          \/ b = "Cancelled" /\ QCancelled
          \/ b = "Ended" /\ ~QFinalized /\ ~QCancelled /\ AfterDeadlineTruthy
          \/ b = "Open" /\ ~QFinalized /\ ~QCancelled /\ ~AfterDeadlineTruthy}
  ELSE {IF QFinalized THEN "Finalized"
        ELSE IF QCancelled THEN "Cancelled"
        ELSE IF AfterDeadlineTruthy THEN "Ended" ELSE "Open"}

DisplayedStatus == IF View = "content" THEN Badges ELSE {}

\* The "Submit your work" section.
SubmissionForm ==
  /\ View = "content"
  /\ ~QFinalized /\ ~QCancelled
  /\ variant = "grove" => ~AfterDeadlineTruthy

\* addr && quest?.creator && quest.creator.toLowerCase() === addr.toLowerCase()
IsCreator_anyWallet ==
  /\ wallet # None /\ wallet[1] # <<>>
  /\ quest # None /\ quest[1].creator # <<>>
IsCreator ==
  /\ wallet # None /\ wallet[1] # <<>>
  /\ quest # None /\ quest[1].creator # <<>>
  /\ ToLowerCase(quest[1].creator) = ToLowerCase(wallet[1])

\* The creator actions card (winner selection).
WinnerControl ==
  /\ View = "content"
  /\ IsCreator /\ AfterDeadlineTruthy /\ ~QFinalized

\* ------------------------------------------------------------ clock, unmount

Tick ==
  /\ now + 500 <= MaxNow
  /\ now' = now + 500
  /\ UNCHANGED <<winnerRuns, submitVars, apiVars, envVars, page, variant, phase, loading, error, netVars, detailVars, listVars,
                 createVars>>


\* ------------------------------------------------------------ list page

\* Array.from({ length: max }, (_, i) => BigInt(i + 1)); BigInt(i) in the
\* simple variant.
ListIds(v, max) == [i \in 1..max |-> IF v = "grove" THEN i ELSE i - 1]

\* e?.message || "failed to load quests"
ListErrorMessage(e) == IF e.message # "" THEN e.message ELSE "failed to load quests"

\* The object pushed on arr for one quest.
MkItem_untitled(v, id, q, meta) ==
  [id |-> id, creator |-> q.creator, cid |-> q.cid, prize |-> q.prize,
   deadline |-> q.deadline, cancelled |-> q.cancelled, finalized |-> q.finalized,
   participantsCount |-> q.participantsCount,
   title |-> IF meta # None THEN meta[1].title ELSE "",
   description |-> IF meta # None THEN meta[1].description ELSE ""]
MkItem(v, id, q, meta) ==
  IF v = "grove"
  THEN [id |-> id, creator |-> q.creator, cid |-> q.cid, prize |-> q.prize,
        deadline |-> q.deadline, cancelled |-> q.cancelled, finalized |-> q.finalized,
        participantsCount |-> q.participantsCount,
        title |-> IF meta # None /\ meta[1].title # ""
                  THEN meta[1].title ELSE "Quest #" \o ToString(id),
        description |-> IF meta # None /\ meta[1].description # ""
                        THEN meta[1].description ELSE ""]
  ELSE [id |-> id, creator |-> q.creator, cid |-> q.cid, prize |-> q.prize,
        deadline |-> q.deadline, cancelled |-> q.cancelled, finalized |-> q.finalized,
        participantsCount |-> q.participantsCount]

NotCancelled(q) == ~q.cancelled

\* arr.filter((q) => !q.cancelled)
FilterCancelled_keepAll(arr) == arr
FilterCancelled(arr) == SelectSeq(arr, NotCancelled)

IdleListRun ==
  [pc |-> "idle", mounted |-> TRUE, ids |-> <<>>, k |-> 0, arr |-> <<>>, q |-> None,
   metaEnds |-> <<>>, end |-> ""]

\* First commit of QuestsPage: the effect starts run(), suspended at questCount.
ListMount ==
  /\ page = "list" /\ phase = "rendered"
  /\ phase' = "mounted"
  /\ listRun' = [listRun EXCEPT !.pc = "count"]
  /\ countLog' = countLog + 1
  /\ UNCHANGED <<winnerRuns, submitVars, apiVars, envVars, page, variant, now, loading, error, getQuestLog, fetchLog, items,
                 detailVars, createVars>>

\* The loop body is over for one id with arr2 as the new arr, its metadata
\* step having ended as how says: either the next getQuest is issued, or the
\* loop ends, setItems runs if mounted, then finally.
ListAdvance(arr2, how) ==
  IF listRun.k < Len(listRun.ids)
  THEN /\ listRun' = [listRun EXCEPT !.pc = "read", !.k = listRun.k + 1, !.arr = arr2,
                                     !.q = None, !.metaEnds = Append(@, how)]
       /\ getQuestLog' = Append(getQuestLog, listRun.ids[listRun.k + 1])
       /\ UNCHANGED <<items, loading>>
  ELSE /\ listRun' = [listRun EXCEPT !.pc = "done", !.arr = arr2, !.q = None,
                                     !.metaEnds = Append(@, how), !.end = "ok"]
       /\ items' = IF listRun.mounted THEN FilterCancelled(arr2) ELSE items
       /\ loading' = FALSE
       /\ UNCHANGED getQuestLog

ListAt(pc) == page = "list" /\ listRun.pc = pc

ListFails(e, how) ==
  /\ error' = Some(ListErrorMessage(e))
  /\ loading' = FALSE
  /\ listRun' = [listRun EXCEPT !.pc = "done", !.end = how]

\* questCount resolves with n.
CountReturn(n) ==
  /\ ListAt("count")
  /\ IF n > 0
     THEN /\ listRun' = [listRun EXCEPT !.pc = "read", !.ids = ListIds(variant, n), !.k = 1]
          /\ getQuestLog' = Append(getQuestLog, ListIds(variant, n)[1])
          /\ UNCHANGED <<items, loading>>
     ELSE /\ listRun' = [listRun EXCEPT !.pc = "done", !.end = "ok"]
          /\ items' = IF listRun.mounted THEN FilterCancelled(<<>>) ELSE items
          /\ loading' = FALSE
          /\ UNCHANGED getQuestLog
  /\ UNCHANGED <<winnerRuns, submitVars, apiVars, envVars, page, variant, phase, now, error, fetchLog, countLog, detailVars,
                 createVars>>

CountThrow(e) ==
  /\ ListAt("count")
  /\ ListFails(e, "countThrow")
  /\ UNCHANGED <<winnerRuns, submitVars, apiVars, envVars, page, variant, phase, now, netVars, items, detailVars, createVars>>

\* getQuest(ids[k]) resolves with q.
ListReadReturn(q) ==
  /\ ListAt("read")
  /\ IF variant = "grove" /\ HasCid(q.cid)
     THEN /\ listRun' = [listRun EXCEPT !.pc = "fetch", !.q = Some(q)]
          /\ fetchLog' = Append(fetchLog, q.cid)
          /\ UNCHANGED <<items, loading, getQuestLog>>
     ELSE /\ ListAdvance(Append(listRun.arr,
                                MkItem(variant, listRun.ids[listRun.k], q, None)),
                         "noFetch")
          /\ UNCHANGED fetchLog
  /\ UNCHANGED <<winnerRuns, submitVars, apiVars, envVars, page, variant, phase, now, error, countLog, detailVars, createVars>>

ListReadThrow_keepsFetched(e) ==
  /\ ListAt("read")
  /\ ListFails(e, "readThrow")
  /\ items' = FilterCancelled(listRun.arr)
  /\ UNCHANGED <<winnerRuns, submitVars, apiVars, envVars, page, variant, phase, now, netVars, detailVars,
                 createVars>>
ListReadThrow(e) ==
  /\ ListAt("read")
  /\ ListFails(e, "readThrow")
  /\ UNCHANGED <<winnerRuns, submitVars, apiVars, envVars, page, variant, phase, now, netVars, items, detailVars, createVars>>

\* The metadata step of the current id ends with meta (None when it failed).
ListMetaDone(meta, how) ==
  /\ ListAdvance(Append(listRun.arr,
                        MkItem(variant, listRun.ids[listRun.k], listRun.q[1], meta)),
                 how)
  /\ UNCHANGED <<winnerRuns, submitVars, apiVars, envVars, page, variant, phase, now, error, fetchLog, countLog, detailVars,
                 createVars>>

ListFetchReturn(ok) ==
  /\ ListAt("fetch")
  /\ IF ok
     THEN /\ listRun' = [listRun EXCEPT !.pc = "json"]
          /\ UNCHANGED <<winnerRuns, submitVars, apiVars, envVars, page, variant, phase, now, loading, error, netVars, items,
                         detailVars, createVars>>
     ELSE ListMetaDone(None, "notOk")

\* fetch rejects: caught by the inner try, metadata stays null.
ListFetchReject ==
  /\ ListAt("fetch")
  /\ ListMetaDone(None, "fetchReject")

ListJsonReturn(m) ==
  /\ ListAt("json")
  /\ ListMetaDone(Some(m), "ok")

\* metaRes.json() rejects: the inner catch again.
ListJsonThrow ==
  /\ ListAt("json")
  /\ ListMetaDone(None, "jsonThrow")

\* The page goes away: every effect's cleanup runs.
Unmount ==
  /\ phase = "mounted" /\ ParamsSettled
  /\ phase' = "unmounted"
  /\ runs' = Cleanup(runs)
  /\ listRun' = [listRun EXCEPT !.mounted = FALSE]
  /\ UNCHANGED <<winnerRuns, submitVars, apiVars, envVars, page, variant, now, loading, error, netVars, routeId, resolvedParams,
                 quest, metadata, wallet, afterDeadline, memoNow, items, createVars>>


\* ------------------------------------------------------------ numbers

\* The prize arithmetic is done in IEEE-754 binary64 (JavaScript Number) and
\* in BigInt.  A natural number is the tuple of its digits in base 10000,
\* most significant first, <<>> for 0.  A Number >= 0 is [m, e], standing
\* for m * 2^e with m a natural number of at most 53 bits.

RECURSIVE Strip(_)
Strip(x) == IF x # <<>> /\ Head(x) = 0 THEN Strip(Tail(x)) ELSE x

RECURSIVE DigitsOf(_)
DigitsOf(n) == IF n = 0 THEN <<>> ELSE Append(DigitsOf(n \div 10000), n % 10000)

\* x * c + carry, for c and carry below 10000
RECURSIVE MulCarry(_, _, _)
MulCarry(x, c, carry) ==
  IF x = <<>> THEN DigitsOf(carry)
  ELSE LET t == x[Len(x)] * c + carry
       IN  Append(MulCarry(SubSeq(x, 1, Len(x) - 1), c, t \div 10000), t % 10000)

MulSmall(x, c) == Strip(MulCarry(x, c, 0))

\* quotient and remainder of x by a c below 10000
RECURSIVE DivRem(_, _, _, _)
DivRem(x, c, r, acc) ==
  IF x = <<>> THEN [q |-> Strip(acc), r |-> r]
  ELSE LET t == r * 10000 + Head(x)
       IN  DivRem(Tail(x), c, t % c, Append(acc, t \div c))

DivSmall(x, c) == DivRem(x, c, 0, <<>>)

RECURSIVE AddOne(_)
AddOne(x) ==
  IF x = <<>> THEN <<1>>
  ELSE IF x[Len(x)] < 9999 THEN [x EXCEPT ![Len(x)] = @ + 1]
  ELSE Append(AddOne(SubSeq(x, 1, Len(x) - 1)), 0)

IsOdd(x) == x # <<>> /\ x[Len(x)] % 2 = 1

\* The number written with the decimal digits d.
RECURSIVE FromDecimalDigits(_)
FromDecimalDigits(d) ==
  IF d = <<>> THEN <<>>
  ELSE Strip(MulCarry(FromDecimalDigits(SubSeq(d, 1, Len(d) - 1)), 10, d[Len(d)]))

\* 2^k and 10^k, for a small k
RECURSIVE Pow2(_)
Pow2(k) == IF k = 0 THEN 1 ELSE 2 * Pow2(k - 1)
RECURSIVE Pow10(_)
Pow10(k) == IF k = 0 THEN 1 ELSE 10 * Pow10(k - 1)

RECURSIVE SmallBitLength(_)
SmallBitLength(n) == IF n = 0 THEN 0 ELSE 1 + SmallBitLength(n \div 2)

\* The number of bits of x, taken off twelve at a time.
RECURSIVE BitLength(_)
BitLength(x) ==
  IF x = <<>> THEN 0
  ELSE IF Len(x) = 1 THEN SmallBitLength(x[1])
  ELSE 12 + BitLength(DivSmall(x, 4096).q)

\* x * 2^k, twelve bits at a time
RECURSIVE MulPow2(_, _)
MulPow2(x, k) ==
  IF k = 0 THEN x
  ELSE LET j == IF k < 12 THEN k ELSE 12
       IN  MulPow2(MulSmall(x, Pow2(j)), k - j)

\* x * 10^k
MulPow10(x, k) ==
  IF x = <<>> THEN x ELSE MulSmall(x, Pow10(k % 4)) \o [i \in 1..(k \div 4) |-> 0]

\* floor(x / 10^k), and whether the division left a remainder
DivPow10(x, k) ==
  LET whole == k \div 4
      kept == IF Len(x) <= whole THEN <<>> ELSE SubSeq(x, 1, Len(x) - whole)
      d == DivSmall(kept, Pow10(k % 4))
  IN  [q |-> d.q,
       inexact |-> d.r # 0 \/ \E i \in DOMAIN x : i > Len(x) - whole /\ x[i] # 0]

\* floor(x / 2^k)
RECURSIVE ShiftFloor(_, _)
ShiftFloor(x, k) ==
  IF k = 0 THEN x
  ELSE LET j == IF k < 12 THEN k ELSE 12
       IN  ShiftFloor(DivSmall(x, Pow2(j)).q, k - j)

\* The last k bits of n are dropped and the result rounded to nearest, ties
\* to even; half is the bit dropped last, inexact says a lower one was set.
RECURSIVE ShiftRound(_, _, _, _, _)
ShiftRound(n, e, half, inexact, k) ==
  IF k = 0
  THEN [m |-> IF half /\ (inexact \/ IsOdd(n)) THEN AddOne(n) ELSE n, e |-> e]
  ELSE LET j == IF k < 12 THEN k ELSE 12
           d == DivSmall(n, Pow2(j))
       IN  ShiftRound(d.q, e + j, d.r >= Pow2(j - 1),
                      inexact \/ half \/ d.r % Pow2(j - 1) # 0, k - j)

\* The Number nearest to n * 2^e (plus a tail below the last bit of n when
\* inexact): the rounding every binary64 operation ends with.
RoundToDouble(n, e, inexact) ==
  LET bits == BitLength(n)
  IN  IF bits <= 53 THEN [m |-> n, e |-> e]
      ELSE ShiftRound(n, e, FALSE, inexact, bits - 53)

\* The Number a decimal literal denotes: digits / 10^scale.
DoubleOf(digits, scale) ==
  LET s == 64 + 4 * scale
      d == DivPow10(MulPow2(FromDecimalDigits(digits), s), scale)
  IN  RoundToDouble(d.q, 0 - s, d.inexact)

\* x * 1e18 (1e18 is a Number: the exact product, rounded once)
TimesE18(x) == RoundToDouble(MulPow10(x.m, 18), x.e, FALSE)

\* Math.floor(x), as the integer BigInt() makes of it
MathFloor(x) ==
  IF x.e >= 0 THEN MulPow2(x.m, x.e) ELSE ShiftFloor(x.m, 0 - x.e)

\* Number(w) for a BigInt w
NumberOf(w) == RoundToDouble(w, 0, FALSE)

\* x / 1e18: the quotient is taken with enough bits below the 53rd to round.
DividedByE18(x) ==
  IF x.m = <<>> THEN x
  ELSE LET s == 120 - BitLength(x.m)
           d == DivPow10(MulPow2(x.m, s), 18)
       IN  RoundToDouble(d.q, x.e - s, d.inexact)

\* n / 2^k rounded to the nearest integer, a tie going up
RECURSIVE ShiftHalfUp(_, _, _)
ShiftHalfUp(n, half, k) ==
  IF k = 0 THEN (IF half THEN AddOne(n) ELSE n)
  ELSE LET j == IF k < 12 THEN k ELSE 12
           d == DivSmall(n, Pow2(j))
       IN  ShiftHalfUp(d.q, d.r >= Pow2(j - 1), k - j)

\* x.toFixed(f) for x < 1e21: the integer n with n / 10^f nearest to x, the
\* larger one on a tie; the string printed is n with a point before its last
\* f decimal digits.
ToFixed(x, f) ==
  IF x.e >= 0 THEN MulPow2(MulPow10(x.m, f), x.e)
  ELSE ShiftHalfUp(MulPow10(x.m, f), FALSE, 0 - x.e)

\* ------------------------------------------------------------ create page

\* Field values the form is given.  Strings are tuples of characters where
\* trim() and length are computed, names of table rows where they are parsed.
TitleInputs == {<<>>, <<" ", "a", "b", " ">>, <<"a", "b", "c">>}
DescriptionInputs ==
  {<<>>, <<" ", "a", "b", "c", "d", "e", " ">>, <<"a", "b", "c", "d", "e", "f">>}
PrizeInputs == {"", "0", "-1", "0.5", "36.953125", "1e400"}
DeadlineInputs == {"", "1970-01-01T00:00:02", "1970-01-01T00:01:02",
                   "1970-01-01T00:01:10", "300000-01-01T00:00"}

IsSpace(c) == c = " "

\* String.prototype.trim
RECURSIVE TrimStart(_)
TrimStart(s) ==
  IF s # <<>> /\ IsSpace(Head(s)) THEN TrimStart(Tail(s)) ELSE s
RECURSIVE TrimEnd(_)
TrimEnd(s) ==
  IF s # <<>> /\ IsSpace(s[Len(s)]) THEN TrimEnd(SubSeq(s, 1, Len(s) - 1)) ELSE s
Trim(s) == TrimEnd(TrimStart(s))

\* How parseFloat reads each input: NaN, an infinity, or a decimal literal
\* (sign, digits, number of digits after the point).
DecimalOf(s) ==
  CASE s = "0" -> [kind |-> "num", neg |-> FALSE, digits |-> <<>>, scale |-> 0]
    [] s = "-1" -> [kind |-> "num", neg |-> TRUE, digits |-> <<1>>, scale |-> 0]
    [] s = "0.5" -> [kind |-> "num", neg |-> FALSE, digits |-> <<5>>, scale |-> 1]
    [] s = "36.953125" ->
         [kind |-> "num", neg |-> FALSE, digits |-> <<3, 6, 9, 5, 3, 1, 2, 5>>, scale |-> 6]
    [] s = "1e400" -> [kind |-> "inf", neg |-> FALSE, digits |-> <<>>, scale |-> 0]
    [] OTHER -> [kind |-> "nan", neg |-> FALSE, digits |-> <<>>, scale |-> 0]

\* parseFloat of every input: kind, sign, and the Number |value|.
ParseFloatTable ==
  [s \in PrizeInputs |->
     [kind |-> DecimalOf(s).kind, neg |-> DecimalOf(s).neg,
      abs |-> DoubleOf(DecimalOf(s).digits, DecimalOf(s).scale)]]

ParseFloat(s) == ParseFloatTable[s]

\* BigInt(Math.floor(eth * 1e18)), for every input
ValueWeiTable ==
  [s \in PrizeInputs |-> MathFloor(TimesE18(ParseFloatTable[s].abs))]

ValueWei(s) == ValueWeiTable[s]

\* Number(prize) / 1e18, the prizeEth of the read models
PrizeEth(wei) == DividedByE18(NumberOf(wei))

\* new Date(deadline).getTime(): ms since the epoch, None for NaN.
DateGetTime(s) ==
  CASE s = "1970-01-01T00:00:02" -> Some(2000)
    [] s = "1970-01-01T00:01:02" -> Some(62000)
    [] s = "1970-01-01T00:01:10" -> Some(70000)
    [] OTHER -> None

IsValidTitle == Len(Trim(title)) > 2

IsValidDescription_untrimmed == Len(description) > 5
IsValidDescription == Len(Trim(description)) > 5

\* Number.isFinite(n) && n > 0
PositiveFinite(n) == n.kind = "num" /\ ~n.neg /\ n.abs.m # <<>>
IsValidPrize == PositiveFinite(ParseFloat(prize))

\* isValidDeadline's body, for the deadline string d read at clock ms.
DeadlineValidAt(d, ms) ==
  /\ d # ""
  /\ DateGetTime(d) # None
  /\ DateGetTime(d)[1] > ms + 60000

CanSubmit_ignoresLoading ==
  IsValidTitle /\ IsValidDescription /\ IsValidPrize /\ deadlineValid
CanSubmit ==
  IsValidTitle /\ IsValidDescription /\ IsValidPrize /\ deadlineValid /\ ~loading

IdleCreateRun == [pc |-> "idle", title |-> <<>>, description |-> <<>>, prize |-> "",
                  deadline |-> "", end |-> ""]

\* First commit of CreateQuest (the effect only marks the frame ready).
CreateMount ==
  /\ page = "create" /\ phase = "rendered"
  /\ phase' = "mounted"
  /\ UNCHANGED <<winnerRuns, submitVars, apiVars, envVars, page, variant, now, loading, error, netVars, detailVars, listVars,
                 createVars>>

CreateShown == page = "create" /\ phase = "mounted"

SetTitle(t) ==
  /\ CreateShown /\ t # title
  /\ title' = t
  /\ UNCHANGED <<winnerRuns, submitVars, apiVars, envVars, page, variant, phase, now, loading, error, netVars, detailVars, listVars,
                 description, prize, deadline, address, deadlineValid, deadlineCheckedAt,
                 transactionCalls, createRun, pinLog>>

SetDescription(d) ==
  /\ CreateShown /\ d # description
  /\ description' = d
  /\ UNCHANGED <<winnerRuns, submitVars, apiVars, envVars, page, variant, phase, now, loading, error, netVars, detailVars, listVars,
                 title, prize, deadline, address, deadlineValid, deadlineCheckedAt,
                 transactionCalls, createRun, pinLog>>

SetPrize(p) ==
  /\ CreateShown /\ p # prize
  /\ prize' = p
  /\ UNCHANGED <<winnerRuns, submitVars, apiVars, envVars, page, variant, phase, now, loading, error, netVars, detailVars, listVars,
                 title, description, deadline, address, deadlineValid, deadlineCheckedAt,
                 transactionCalls, createRun, pinLog>>

\* setDeadline, then the re-render in which useMemo([deadline]) re-evaluates
\* isValidDeadline against Date.now().
SetDeadline(d) ==
  /\ CreateShown /\ d # deadline
  /\ deadline' = d
  /\ deadlineValid' = DeadlineValidAt(d, now)
  /\ deadlineCheckedAt' = now
  /\ UNCHANGED <<winnerRuns, submitVars, apiVars, envVars, page, variant, phase, now, loading, error, netVars, detailVars, listVars,
                 title, description, prize, address, transactionCalls, createRun, pinLog>>

\* Click on "Create Quest": rendered when a wallet is connected and no call is
\* prepared, enabled when canSubmit.  The handler runs up to the pin request.
PrepareStart ==
  /\ CreateShown
  /\ address # None /\ transactionCalls = <<>>
  /\ CanSubmit
  /\ Len(pinLog) < MaxPins
  /\ loading' = TRUE
  /\ pinLog' = Append(pinLog, [title |-> title, description |-> description])
  /\ createRun' = [pc |-> "pin", title |-> title, description |-> description,
                   prize |-> prize, deadline |-> deadline, end |-> ""]
  /\ UNCHANGED <<winnerRuns, submitVars, apiVars, envVars, page, variant, phase, now, error, netVars, detailVars, listVars, title,
                 description, prize, deadline, address, deadlineValid, deadlineCheckedAt,
                 transactionCalls>>

\* The pin request resolves with {cid} ("" when the body carries none).  The
\* call is encoded from the deadline and prize the handler closed over.
PinReturn(cid) ==
  /\ page = "create" /\ createRun.pc = "pin"
  /\ IF /\ cid # ""
        /\ DateGetTime(createRun.deadline) # None   \* BigInt(NaN) throws
        /\ PositiveFinite(ParseFloat(createRun.prize))
     THEN /\ transactionCalls' =
               <<[to |-> "QUESTBOARD_ADDRESS",
                  data |-> <<"createQuest", cid,
                             FloorSeconds(DateGetTime(createRun.deadline)[1])>>,
                  value |-> ValueWei(createRun.prize)]>>
          /\ createRun' = [createRun EXCEPT !.pc = "prepared"]
          /\ UNCHANGED loading
     ELSE /\ createRun' = [createRun EXCEPT !.pc = "idle",
                                             !.end = IF cid = "" THEN "noCid" ELSE "throw"]
          /\ loading' = FALSE
          /\ UNCHANGED transactionCalls
  /\ UNCHANGED <<winnerRuns, submitVars, apiVars, envVars, page, variant, phase, now, error, netVars, detailVars, listVars, title,
                 description, prize, deadline, address, deadlineValid, deadlineCheckedAt,
                 pinLog>>

\* The pin request rejects, or its body is not JSON.
PinReject ==
  /\ page = "create" /\ createRun.pc = "pin"
  /\ createRun' = [createRun EXCEPT !.pc = "idle", !.end = "pinReject"]
  /\ loading' = FALSE
  /\ UNCHANGED <<winnerRuns, submitVars, apiVars, envVars, page, variant, phase, now, error, netVars, detailVars, listVars, title,
                 description, prize, deadline, address, deadlineValid, deadlineCheckedAt,
                 transactionCalls, pinLog>>

\* <Transaction onSuccess>: handleTransactionSuccess.
TransactionSuccess ==
  /\ CreateShown /\ createRun.pc = "prepared"
  /\ loading' = FALSE
  /\ createRun' = [createRun EXCEPT !.pc = "succeeded", !.end = "success"]
  /\ UNCHANGED <<winnerRuns, submitVars, apiVars, envVars, page, variant, phase, now, error, netVars, detailVars, listVars, title,
                 description, prize, deadline, address, deadlineValid, deadlineCheckedAt,
                 transactionCalls, pinLog>>

\* <Transaction onError>: handleTransactionError.
TransactionError_keepsCalls ==
  /\ CreateShown /\ createRun.pc = "prepared"
  /\ loading' = FALSE
  /\ createRun' = [createRun EXCEPT !.pc = "idle", !.end = "txError"]
  /\ UNCHANGED <<winnerRuns, submitVars, apiVars, envVars, page, variant, phase, now, error, netVars, detailVars, listVars, title,
                 description, prize, deadline, address, deadlineValid, deadlineCheckedAt,
                 transactionCalls, pinLog>>
TransactionError ==
  /\ CreateShown /\ createRun.pc = "prepared"
  /\ loading' = FALSE
  /\ transactionCalls' = <<>>
  /\ createRun' = [createRun EXCEPT !.pc = "idle", !.end = "txError"]
  /\ UNCHANGED <<winnerRuns, submitVars, apiVars, envVars, page, variant, phase, now, error, netVars, detailVars, listVars, title,
                 description, prize, deadline, address, deadlineValid, deadlineCheckedAt,
                 pinLog>>

\* ------------------------------------------------------------ submission flow

\* Values typed into the link input.
LinkInputs == {<<>>, <<" ">>, <<"u">>}

IdleSubmitRun == [pc |-> "idle", id |-> 0, link |-> <<>>, end |-> ""]

\* onChange={(e) => setLink(e.target.value)}: the input is part of the
\* submission section.
SetLink(l) ==
  /\ page = "detail" /\ phase = "mounted" /\ SubmissionForm
  /\ l # link
  /\ link' = l
  /\ UNCHANGED <<winnerRuns, apiVars, envVars, page, variant, phase, now, loading, error, netVars,
                 detailVars, listVars, createVars, submitting, submitRun, walletLog,
                 showSubmissionSuccess, submissionCountdown, timers>>

\* The submit button: rendered while no call is prepared and
\* disabled={!link.trim() || submitting} in the Grove variant,
\* disabled={!link || submitting} in the simple one.
SubmitButtonEnabled ==
  /\ page = "detail" /\ phase = "mounted" /\ SubmissionForm
  /\ ~submitting
  /\ IF variant = "grove" THEN transactionCalls = <<>> /\ Trim(link) # <<>>
     ELSE link # <<>>

\* handlePrepareSubmission (Grove) up to its await: the trim check, then
\* setSubmitting(true) and the pin request.
PrepareSubmissionStart ==
  /\ variant = "grove" /\ SubmitButtonEnabled
  /\ Trim(link) # <<>>
  /\ Len(pinLog) < MaxSubmits
  /\ submitting' = TRUE
  /\ pinLog' = Append(pinLog, [link |-> link])
  /\ submitRun' = [pc |-> "pin", id |-> DetailId, link |-> link, end |-> ""]
  /\ UNCHANGED <<winnerRuns, apiVars, envVars, page, variant, phase, now, loading, error, netVars,
                 detailVars, listVars, formVars, transactionCalls, link, walletLog,
                 showSubmissionSuccess, submissionCountdown, timers>>

\* handleSubmit (simple) up to its await: no check of the link at all.
HandleSubmitStart ==
  /\ variant = "simple" /\ SubmitButtonEnabled
  /\ Len(pinLog) < MaxSubmits
  /\ submitting' = TRUE
  /\ pinLog' = Append(pinLog, [link |-> link])
  /\ submitRun' = [pc |-> "pin", id |-> DetailId, link |-> link, end |-> ""]
  /\ UNCHANGED <<winnerRuns, apiVars, envVars, page, variant, phase, now, loading, error, netVars,
                 detailVars, listVars, formVars, transactionCalls, link, walletLog,
                 showSubmissionSuccess, submissionCountdown, timers>>

SubmitAt(v, pc) == page = "detail" /\ variant = v /\ submitRun.pc = pc

SubmitRunEnds(how) == submitRun' = [submitRun EXCEPT !.pc = "idle", !.end = how]

\* Grove: the pin request resolves with {cid} ("" when the body carries
\* none): the submit call is encoded and handed to <Transaction>.
SubmissionPinReturn(cid) ==
  /\ SubmitAt("grove", "pin")
  /\ IF cid # ""
     THEN /\ transactionCalls' =
               <<[to |-> "QUESTBOARD_ADDRESS", data |-> <<"submit", submitRun.id, cid>>]>>
          /\ submitRun' = [submitRun EXCEPT !.pc = "prepared"]
          /\ UNCHANGED submitting
     ELSE /\ SubmitRunEnds("noCid")
          /\ submitting' = FALSE
          /\ UNCHANGED transactionCalls
  /\ UNCHANGED <<winnerRuns, apiVars, envVars, page, variant, phase, now, loading, error, netVars,
                 detailVars, listVars, formVars, pinLog, link, walletLog,
                 showSubmissionSuccess, submissionCountdown, timers>>

\* Grove: the pin request rejects, or its body is not JSON.
SubmissionPinReject ==
  /\ SubmitAt("grove", "pin")
  /\ SubmitRunEnds("pinReject")
  /\ submitting' = FALSE
  /\ UNCHANGED <<winnerRuns, apiVars, envVars, page, variant, phase, now, loading, error, netVars,
                 detailVars, listVars, createVars, link, walletLog,
                 showSubmissionSuccess, submissionCountdown, timers>>

\* <Transaction onSuccess>: handleSubmissionSuccess, which also starts the
\* one-second interval of the countdown.
SubmissionSuccess ==
  /\ SubmitAt("grove", "prepared") /\ phase = "mounted"
  /\ submitting' = FALSE
  /\ showSubmissionSuccess' = TRUE
  /\ submissionCountdown' = 3
  /\ transactionCalls' = <<>>
  /\ link' = <<>>
  /\ timers' = timers + 1
  /\ SubmitRunEnds("success")
  /\ UNCHANGED <<winnerRuns, apiVars, envVars, page, variant, phase, now, loading, error, netVars,
                 detailVars, listVars, formVars, pinLog, walletLog>>

\* <Transaction onError>: handleSubmissionError.
SubmissionError_keepsSubmitting ==
  /\ SubmitAt("grove", "prepared") /\ phase = "mounted"
  /\ transactionCalls' = <<>>
  /\ SubmitRunEnds("txError")
  /\ UNCHANGED <<winnerRuns, apiVars, envVars, page, variant, phase, now, loading, error, netVars,
                 detailVars, listVars, formVars, pinLog, link, walletLog, submitting,
                 showSubmissionSuccess, submissionCountdown, timers>>
SubmissionError ==
  /\ SubmitAt("grove", "prepared") /\ phase = "mounted"
  /\ submitting' = FALSE
  /\ transactionCalls' = <<>>
  /\ SubmitRunEnds("txError")
  /\ UNCHANGED <<winnerRuns, apiVars, envVars, page, variant, phase, now, loading, error, netVars,
                 detailVars, listVars, formVars, pinLog, link, walletLog,
                 showSubmissionSuccess, submissionCountdown, timers>>

\* One firing of a countdown interval: the updater of setSubmissionCountdown.
CountdownTick_dismissAtZero ==
  /\ page = "detail" /\ timers > 0
  /\ IF submissionCountdown <= 0
     THEN /\ timers' = timers - 1
          /\ showSubmissionSuccess' = FALSE
          /\ submissionCountdown' = 0
     ELSE /\ submissionCountdown' = submissionCountdown - 1
          /\ UNCHANGED <<timers, showSubmissionSuccess>>
  /\ UNCHANGED <<winnerRuns, apiVars, envVars, page, variant, phase, now, loading, error, netVars,
                 detailVars, listVars, createVars, link, submitting, submitRun, walletLog>>
CountdownTick ==
  /\ page = "detail" /\ timers > 0
  /\ IF submissionCountdown <= 1
     THEN /\ timers' = timers - 1            \* clearInterval(timer)
          /\ showSubmissionSuccess' = FALSE
          /\ submissionCountdown' = 0
     ELSE /\ submissionCountdown' = submissionCountdown - 1
          /\ UNCHANGED <<timers, showSubmissionSuccess>>
  /\ UNCHANGED <<winnerRuns, apiVars, envVars, page, variant, phase, now, loading, error, netVars,
                 detailVars, listVars, createVars, link, submitting, submitRun, walletLog>>

\* Simple: the pin request resolves.  Without a cid the handler throws; with
\* one it encodes the call and asks window.ethereum (when eth says there is
\* one) to send it.  catch logs, finally clears submitting.
HandleSubmitPinReturn(cid, eth) ==
  /\ SubmitAt("simple", "pin")
  /\ IF cid # "" /\ eth
     THEN /\ walletLog' = Append(walletLog, [to |-> "QUESTBOARD_ADDRESS",
                                             data |-> <<"submit", submitRun.id, cid>>])
          /\ submitRun' = [submitRun EXCEPT !.pc = "wallet"]
          /\ UNCHANGED submitting
     ELSE /\ SubmitRunEnds(IF cid = "" THEN "noCid" ELSE "noWallet")
          /\ submitting' = FALSE
          /\ UNCHANGED walletLog
  /\ UNCHANGED <<winnerRuns, apiVars, envVars, page, variant, phase, now, loading, error, netVars,
                 detailVars, listVars, createVars, link,
                 showSubmissionSuccess, submissionCountdown, timers>>

HandleSubmitPinReject ==
  /\ SubmitAt("simple", "pin")
  /\ SubmitRunEnds("pinReject")
  /\ submitting' = FALSE
  /\ UNCHANGED <<winnerRuns, apiVars, envVars, page, variant, phase, now, loading, error, netVars,
                 detailVars, listVars, createVars, link, walletLog,
                 showSubmissionSuccess, submissionCountdown, timers>>

\* Simple: eth_sendTransaction resolves (sent: with a transaction hash).
WalletReturn(sent) ==
  /\ SubmitAt("simple", "wallet")
  /\ SubmitRunEnds(IF sent THEN "sent" ELSE "noHash")
  /\ submitting' = FALSE
  /\ UNCHANGED <<winnerRuns, apiVars, envVars, page, variant, phase, now, loading, error, netVars,
                 detailVars, listVars, createVars, link, walletLog,
                 showSubmissionSuccess, submissionCountdown, timers>>

\* Simple: the wallet rejects the request.
WalletReject ==
  /\ SubmitAt("simple", "wallet")
  /\ SubmitRunEnds("walletReject")
  /\ submitting' = FALSE
  /\ UNCHANGED <<winnerRuns, apiVars, envVars, page, variant, phase, now, loading, error, netVars,
                 detailVars, listVars, createVars, link, walletLog,
                 showSubmissionSuccess, submissionCountdown, timers>>

\* ------------------------------------------------------------ winner selection

\* What prompt() returns: None when it is cancelled, else the text typed.  A
\* text is a tuple of "," and " " and of tokens, a token standing for a run of
\* characters that holds neither: "0x1" and "0x2" for well-formed addresses,
\* "zz" for anything else.
PromptInputs ==
  {None, Some(<<>>), Some(<<" ">>), Some(<<"0x1">>), Some(<<"0x1", ",">>),
   Some(<<" ", "0x1", " ", ",", "zz">>), Some(<<" ", "0x1", ",", "0x2", " ">>)}

\* String.prototype.split(",")
RECURSIVE SplitComma(_)
SplitComma(s) ==
  IF \A k \in DOMAIN s : s[k] # "," THEN <<s>>
  ELSE LET i == CHOOSE k \in DOMAIN s : s[k] = "," /\ \A j \in 1..(k - 1) : s[j] # ","
       IN  <<SubSeq(s, 1, i - 1)>> \o SplitComma(SubSeq(s, i + 1, Len(s)))

\* addrList.split(",").map((s) => s.trim())
ParseWinners_dropsEmpty(s) ==
  LET parts == SplitComma(s)
      trimmed == [k \in DOMAIN parts |-> Trim(parts[k])]
  IN  SelectSeq(trimmed, LAMBDA w : w # <<>>)
ParseWinners(s) ==
  LET parts == SplitComma(s)
  IN  [k \in DOMAIN parts |-> Trim(parts[k])]

\* encodeFunctionData({ functionName: "selectWinners", args: [id, winners] })
\* returns the call data when every entry is an address and throws otherwise
\* (the encoder rejects a value of ABI type address that is not one).
EncodesWinners(winners) ==
  \A k \in DOMAIN winners : winners[k] \in {<<"0x1">>, <<"0x2">>}

WinnerRunEnded(input, how) ==
  [pc |-> "done", input |-> input, id |-> DetailId, winners |-> <<>>, requests |-> 0,
   cast |-> None, end |-> how]

\* Click on the winner-selection button: handleSelectWinners up to its await.
\* prompt() blocks, so the prompt, the parsing, the encoding and the wallet
\* request are one step; eth says whether window.ethereum.request exists.
SelectWinnersStart(input, eth) ==
  /\ page = "detail" /\ phase = "mounted" /\ WinnerControl
  /\ Len(winnerRuns) < MaxSelects
  /\ IF input = None \/ input[1] = <<>>
     THEN \* if (!addrList) return;
          /\ winnerRuns' = Append(winnerRuns, WinnerRunEnded(input, "noInput"))
          /\ UNCHANGED walletLog
     ELSE LET winners == ParseWinners(input[1]) IN
          IF ~EncodesWinners(winners)
          THEN /\ winnerRuns' = Append(winnerRuns,
                                  [WinnerRunEnded(input, "encodeThrow") EXCEPT !.winners = winners])
               /\ UNCHANGED walletLog
          ELSE IF ~eth
          THEN \* ethereum?.request?.(...) is undefined: txResp is falsy
               /\ winnerRuns' = Append(winnerRuns,
                                  [WinnerRunEnded(input, "noWallet") EXCEPT !.winners = winners])
               /\ UNCHANGED walletLog
          ELSE /\ walletLog' = Append(walletLog,
                                 [to |-> "QUESTBOARD_ADDRESS",
                                  data |-> <<"selectWinners", DetailId, winners>>])
               /\ winnerRuns' = Append(winnerRuns,
                                  [pc |-> "wallet", input |-> input, id |-> DetailId,
                                   winners |-> winners,
                                   requests |-> 1, cast |-> None, end |-> ""])
  /\ UNCHANGED <<apiVars, envVars, page, variant, phase, now, loading, error, netVars,
                 detailVars, listVars, createVars, link, submitting, submitRun,
                 showSubmissionSuccess, submissionCountdown, timers>>

WinnerRunAt(i, pc) ==
  page = "detail" /\ i \in DOMAIN winnerRuns /\ winnerRuns[i].pc = pc

\* eth_sendTransaction resolves: if (txResp) composeCast(...).
SelectWinnersWalletReturn(i, truthy) ==
  /\ WinnerRunAt(i, "wallet")
  /\ winnerRuns' =
       [winnerRuns EXCEPT ![i].pc = "done",
                          ![i].end = IF truthy THEN "sent" ELSE "noHash",
                          ![i].cast = IF truthy
                                      THEN Some([id |-> winnerRuns[i].id,
                                                 winners |-> winnerRuns[i].winners])
                                      ELSE None]
  /\ UNCHANGED <<apiVars, envVars, page, variant, phase, now, loading, error, netVars,
                 detailVars, listVars, createVars, submitVars>>

\* The wallet rejects the request: catch (e) logs.
SelectWinnersWalletReject(i) ==
  /\ WinnerRunAt(i, "wallet")
  /\ winnerRuns' = [winnerRuns EXCEPT ![i].pc = "done", ![i].end = "walletReject"]
  /\ UNCHANGED <<apiVars, envVars, page, variant, phase, now, loading, error, netVars,
                 detailVars, listVars, createVars, submitVars>>

\* ------------------------------------------------------------ POST /api/pin

\* Request bodies: one that parses as JSON and one that does not.
ApiBodies == {"json", "notJson"}

\* What pinJson and req.json() throw: as Thrown, and an Error without message.
ApiThrown == Thrown \cup {[isError |-> TRUE, message |-> ""]}

\* Content identifiers pinJson resolves with.
PinnedCids == {"QmPin"}

\* NextResponse.json({ cid })
OkResponse(cid) == [status |-> 200, cid |-> Some(cid), error |-> None]

\* NextResponse.json({ error: e?.message || "pin failed" }, { status: 500 })
ErrorResponse_status200(e) ==
  [status |-> 200, cid |-> None,
   error |-> Some(IF e.message # "" THEN e.message ELSE "pin failed")]
ErrorResponse(e) ==
  [status |-> 500, cid |-> None,
   error |-> Some(IF e.message # "" THEN e.message ELSE "pin failed")]

IdleApiRun == [pc |-> "idle", body |-> ""]

ApiAt(pc) == page = "api" /\ apiRun.pc = pc

\* A request with body b arrives: POST runs up to `await req.json()`.
PostStart(b) ==
  /\ ApiAt("idle")
  /\ apiRun' = [pc |-> "json", body |-> b]
  /\ UNCHANGED <<winnerRuns, submitVars, envVars, page, variant, phase, now, loading, error, netVars,
                 detailVars, listVars, createVars, apiResponse>>

\* req.json() resolves: pinJson(body) is called.
PostJsonReturn ==
  /\ ApiAt("json") /\ apiRun.body = "json"
  /\ apiRun' = [apiRun EXCEPT !.pc = "pin"]
  /\ UNCHANGED <<winnerRuns, submitVars, envVars, page, variant, phase, now, loading, error, netVars,
                 detailVars, listVars, createVars, apiResponse>>

\* req.json() rejects with e: the catch answers.
PostJsonThrow(e) ==
  /\ ApiAt("json") /\ apiRun.body = "notJson"
  /\ apiRun' = [apiRun EXCEPT !.pc = "done"]
  /\ apiResponse' = Some(ErrorResponse(e))
  /\ UNCHANGED <<winnerRuns, submitVars, envVars, page, variant, phase, now, loading, error, netVars,
                 detailVars, listVars, createVars>>

\* pinJson resolves with { cid }.
PostPinReturn(cid) ==
  /\ ApiAt("pin")
  /\ apiRun' = [apiRun EXCEPT !.pc = "done"]
  /\ apiResponse' = Some(OkResponse(cid))
  /\ UNCHANGED <<winnerRuns, submitVars, envVars, page, variant, phase, now, loading, error, netVars,
                 detailVars, listVars, createVars>>

\* pinJson rejects with e: the catch answers.
PostPinThrow(e) ==
  /\ ApiAt("pin")
  /\ apiRun' = [apiRun EXCEPT !.pc = "done"]
  /\ apiResponse' = Some(ErrorResponse(e))
  /\ UNCHANGED <<winnerRuns, submitVars, envVars, page, variant, phase, now, loading, error, netVars,
                 detailVars, listVars, createVars>>

\* ------------------------------------------------------------ lib/chain

\* process.env values: None when the variable is unset.
ChainEnvs == {None, Some(""), Some("base"), Some("mainnet"), Some("base-sepolia"),
              Some("Base"), Some("main")}
AddressEnvs == {None, Some(""), Some("0xOverride")}

UnsetEnv == [NEXT_PUBLIC_CHAIN |-> None, NEXT_PUBLIC_QUESTBOARD_ADDRESS |-> None]

\* v || d for an optional string: unset and "" are falsy.
OrDefault(v, d) == IF v = None \/ v[1] = "" THEN d ELSE v[1]

\* export const QUESTBOARD_ADDRESS
QuestboardAddress(a) == OrDefault(a, "0x24F1380D389Eb506dC8E19C777fB3078C31617a4")

\* getActiveChain()
GetActiveChain_onlyBase(c) ==
  IF OrDefault(c, "base-sepolia") = "base" THEN "base" ELSE "baseSepolia"
GetActiveChain(c) ==
  IF OrDefault(c, "base-sepolia") \in {"base", "mainnet"} THEN "base" ELSE "baseSepolia"

\* The module is evaluated: the QUESTBOARD_ADDRESS constant is computed.
LoadChainModule ==
  /\ page = "config" /\ questboardAddress = None
  /\ questboardAddress' = Some(QuestboardAddress(env.NEXT_PUBLIC_QUESTBOARD_ADDRESS))
  /\ UNCHANGED <<winnerRuns, submitVars, apiVars, page, variant, phase, now, loading, error, netVars,
                 detailVars, listVars, createVars, env, activeChain>>

\* A call of getActiveChain().
CallGetActiveChain ==
  /\ page = "config" /\ questboardAddress # None /\ activeChain = None
  /\ activeChain' = Some(GetActiveChain(env.NEXT_PUBLIC_CHAIN))
  /\ UNCHANGED <<winnerRuns, submitVars, apiVars, page, variant, phase, now, loading, error, netVars,
                 detailVars, listVars, createVars, env, questboardAddress>>

\* ------------------------------------------------------------ specification

Init ==
  /\ page \in {"detail", "list", "create", "api", "config"}
  /\ variant \in IF page \in {"detail", "list"} THEN {"grove", "simple"} ELSE {"grove"}
  /\ phase = "rendered"
  /\ now = 1500
  /\ loading = (page \in {"detail", "list"})
  /\ error = None
  /\ routeId \in IF page = "detail" THEN RouteIds ELSE {0}
  /\ resolvedParams = IF page = "detail" /\ variant = "simple" THEN Some(routeId) ELSE None
  /\ quest = None
  /\ metadata = None
  /\ runs = <<>>
  /\ wallet \in IF page = "detail" THEN {None} \cup {Some(a) : a \in WalletAddrs}
                ELSE {None}
  /\ afterDeadline = None
  /\ memoNow = 0
  /\ getQuestLog = <<>> /\ fetchLog = <<>> /\ countLog = 0
  /\ items = <<>>
  /\ listRun = IdleListRun
  /\ title = <<>> /\ description = <<>> /\ prize = "" /\ deadline = ""
  /\ address \in IF page = "create" THEN {None, Some(CreatorAddr)} ELSE {None}
  /\ deadlineValid = FALSE
  /\ deadlineCheckedAt = now
  /\ transactionCalls = <<>>
  /\ createRun = IdleCreateRun
  /\ pinLog = <<>>
  /\ link = <<>> /\ submitting = FALSE /\ submitRun = IdleSubmitRun /\ walletLog = <<>>
  /\ showSubmissionSuccess = FALSE /\ submissionCountdown = 3 /\ timers = 0
  /\ winnerRuns = <<>>
  /\ apiRun = IdleApiRun /\ apiResponse = None
  /\ env \in IF page = "config"
              THEN [NEXT_PUBLIC_CHAIN : ChainEnvs, NEXT_PUBLIC_QUESTBOARD_ADDRESS : AddressEnvs]
              ELSE {UnsetEnv}
  /\ activeChain = None /\ questboardAddress = None

Next ==
  \/ DetailMount
  \/ ResolveParams
  \/ \E i \in 1..2, q \in Records : ReadReturn(i, q)
  \/ \E i \in 1..2, e \in Thrown : ReadThrow(i, e)
  \/ \E i \in 1..2, ok \in BOOLEAN : FetchReturn(i, ok)
  \/ \E i \in 1..2, e \in Thrown : FetchReject(i, e)
  \/ \E i \in 1..2, m \in Metas : JsonReturn(i, m)
  \/ \E i \in 1..2, e \in Thrown : JsonThrow(i, e)
  \/ ListMount
  \/ \E n \in 0..MaxCount : CountReturn(n)
  \/ \E e \in Thrown : CountThrow(e)
  \/ \E q \in Records : ListReadReturn(q)
  \/ \E e \in Thrown : ListReadThrow(e)
  \/ \E ok \in BOOLEAN : ListFetchReturn(ok)
  \/ ListFetchReject
  \/ \E m \in Metas : ListJsonReturn(m)
  \/ ListJsonThrow
  \/ CreateMount
  \/ \E t \in TitleInputs : SetTitle(t)
  \/ \E d \in DescriptionInputs : SetDescription(d)
  \/ \E p \in PrizeInputs : SetPrize(p)
  \/ \E d \in DeadlineInputs : SetDeadline(d)
  \/ PrepareStart
  \/ \E cid \in {"", "QmPin"} : PinReturn(cid)
  \/ PinReject
  \/ TransactionSuccess
  \/ TransactionError
  \/ \E l \in LinkInputs : SetLink(l)
  \/ PrepareSubmissionStart
  \/ \E cid \in {"", "QmPin"} : SubmissionPinReturn(cid)
  \/ SubmissionPinReject
  \/ SubmissionSuccess
  \/ SubmissionError
  \/ CountdownTick
  \/ HandleSubmitStart
  \/ \E cid \in {"", "QmPin"}, eth \in BOOLEAN : HandleSubmitPinReturn(cid, eth)
  \/ HandleSubmitPinReject
  \/ \E sent \in BOOLEAN : WalletReturn(sent)
  \/ WalletReject
  \/ \E input \in PromptInputs, eth \in BOOLEAN : SelectWinnersStart(input, eth)
  \/ \E i \in 1..MaxSelects, truthy \in BOOLEAN : SelectWinnersWalletReturn(i, truthy)
  \/ \E i \in 1..MaxSelects : SelectWinnersWalletReject(i)
  \/ \E b \in ApiBodies : PostStart(b)
  \/ PostJsonReturn
  \/ \E e \in ApiThrown : PostJsonThrow(e)
  \/ \E cid \in PinnedCids : PostPinReturn(cid)
  \/ \E e \in ApiThrown : PostPinThrow(e)
  \/ LoadChainModule
  \/ CallGetActiveChain
  \/ Tick
  \/ Unmount

Spec == Init /\ [][Next]_vars

\* Every issued contract read and content-store fetch is answered, and React
\* commits a rendered page and runs its effects: a step of the read models
\* that stays possible is eventually taken.
ReadModelStep ==
  \/ DetailMount
  \/ ResolveParams
  \/ \E i \in 1..2, q \in Records : ReadReturn(i, q)
  \/ \E i \in 1..2, e \in Thrown : ReadThrow(i, e)
  \/ \E i \in 1..2, ok \in BOOLEAN : FetchReturn(i, ok)
  \/ \E i \in 1..2, e \in Thrown : FetchReject(i, e)
  \/ \E i \in 1..2, m \in Metas : JsonReturn(i, m)
  \/ \E i \in 1..2, e \in Thrown : JsonThrow(i, e)
  \/ ListMount
  \/ \E n \in 0..MaxCount : CountReturn(n)
  \/ \E e \in Thrown : CountThrow(e)
  \/ \E q \in Records : ListReadReturn(q)
  \/ \E e \in Thrown : ListReadThrow(e)
  \/ \E ok \in BOOLEAN : ListFetchReturn(ok)
  \/ ListFetchReject
  \/ \E m \in Metas : ListJsonReturn(m)
  \/ ListJsonThrow

FairSpec == Init /\ [][Next]_vars /\ WF_vars(ReadModelStep)


\* ------------------------------------------------------------ claims

\* The run of the effect for the id the page currently shows.
CurrentRun == runs[Len(runs)]
OnDetail == page = "detail" /\ phase # "rendered"

\* C1: for every id <= 0 the detail page, once its params are known, renders
\* the invalid-input view, and while the id is <= 0 (the interval before the
\* params resolve included) it has issued no getQuest read and no
\* content-store fetch.
C1_InvalidIdNoNetwork ==
  (OnDetail /\ DetailId <= 0) =>
    /\ getQuestLog = <<>> /\ fetchLog = <<>>
    /\ (phase = "mounted" /\ ParamsSettled) => View = "invalid"

\* C2: a run whose effect has been cleaned up (mounted = false) writes no
\* state when it resumes: loading, error, quest, metadata and items are left
\* as they are by every later step of that run.
C2_NoWriteAfterCleanup ==
  [][/\ \A i \in DOMAIN runs :
          (~runs[i].mounted /\ runs'[i].pc # runs[i].pc)
            => UNCHANGED <<loading, error, quest, metadata>>
     /\ (~listRun.mounted /\ listRun'.pc # listRun.pc)
            => UNCHANGED <<loading, error, items>>]_vars

\* C3: in useQuest, when the read succeeded with a non-empty cid and the
\* metadata step failed (response not OK, fetch rejected, or body not JSON),
\* metadata is absent, error is null and the error view is not shown.
C3_MetadataFailureSwallowed ==
  (OnDetail /\ runs # <<>> /\ CurrentRun.end \in {"notOk", "fetchReject", "jsonThrow"}) =>
    /\ metadata = None
    /\ error = None
    /\ View # "error"

C6_NoCancelledListed ==
  \A k \in DOMAIN items : ~items[k].cancelled

C6_Witness ==
  /\ page = "list" /\ listRun.end = "ok" /\ phase = "mounted"
  /\ Len(listRun.arr) = 2 /\ Len(items) = 1
  /\ \E k \in DOMAIN listRun.arr : listRun.arr[k].cancelled /\ listRun.arr[k].finalized

C8_CancelledAlwaysCancelled ==
  (View = "content" /\ quest # None /\ quest[1].cancelled) =>
    DisplayedStatus = {"Cancelled"}

\* The four validation gates, the deadline gate taken against the clock ms.
GatesHold(ms) ==
  /\ Len(Trim(title)) > 2
  /\ Len(Trim(description)) > 5
  /\ ParseFloat(prize).kind = "num" /\ ~ParseFloat(prize).neg
  /\ ParseFloat(prize).abs.m # <<>>
  /\ DateGetTime(deadline) # None /\ DateGetTime(deadline)[1] > ms + 60000

C10_WinnerControlOnlyForCreator ==
  WinnerControl =>
    /\ quest # None /\ wallet # None
    /\ ToLowerCase(wallet[1]) = ToLowerCase(quest[1].creator)
    /\ FloorSeconds(now) > quest[1].deadline
    /\ ~quest[1].finalized

C10_Witness ==
  /\ WinnerControl
  /\ wallet[1] # quest[1].creator

\* C11: the submission form is rendered only while a quest record for the
\* current id is loaded, and that record is not finalized, not cancelled and,
\* in the Grove variant, not past its deadline at the clock reading
\* afterDeadline took.
C11_FormOnlyForLoadedOpenQuest ==
  SubmissionForm =>
    /\ quest # None
    /\ quest[1].questId = DetailId
    /\ ~quest[1].finalized /\ ~quest[1].cancelled
    /\ variant = "grove" => memoNow <= quest[1].deadline

\* C12: in the creation flow a pin request is issued, and a run of the
\* handler started, only from a state where the four validation gates hold,
\* the form is not busy and a wallet is connected; a transaction call is
\* prepared only by the continuation of such a run.  With a failing gate the
\* submit action changes nothing.
C12_NoRequestUnlessGatesHold ==
  [][/\ (page = "create" /\ (pinLog' # pinLog \/ (createRun'.pc = "pin" /\ createRun.pc # "pin")))
          => (GatesHold(deadlineCheckedAt) /\ ~loading /\ address # None)
     /\ (page = "create" /\ transactionCalls' # transactionCalls /\ transactionCalls' # <<>>)
          => (createRun.pc = "pin" /\ loading)]_vars

C12_Witness ==
  /\ CreateShown /\ address # None /\ transactionCalls = <<>>
  /\ Len(pinLog) = 1 /\ createRun.pc = "idle" /\ ~loading
  /\ IsValidTitle /\ IsValidPrize /\ deadlineValid
  /\ Len(description) > 5 /\ ~GatesHold(deadlineCheckedAt)

\* C13: a link that is empty after trimming never reaches the network: no
\* pin request carries such a link, and no run of the submit handler, hence
\* no prepared call and no wallet request, was started from one.
C13_BlankLinkNeverSent ==
  page = "detail" =>
    /\ \A k \in DOMAIN pinLog : Trim(pinLog[k].link) # <<>>
    /\ submitRun.pc # "idle" => Trim(submitRun.link) # <<>>

\* C14: the list model reads questCount once, then getQuest for exactly the
\* ids 1, 2, ..., counter in ascending order, one at a time: the k-th read is
\* issued when the loop is at k, a metadata fetch only for the id being
\* worked on, and a finished listing has read every id up to the counter.
C14_ReadsOneToCounterInOrder ==
  page = "list" =>
    /\ countLog <= 1
    /\ \A k \in DOMAIN getQuestLog : getQuestLog[k] = k
    /\ Len(getQuestLog) = listRun.k
    /\ Len(getQuestLog) <= Len(listRun.ids)
    /\ Len(fetchLog) <= Len(listRun.arr) + (IF listRun.pc \in {"fetch", "json"} THEN 1 ELSE 0)
    /\ listRun.end = "ok" => Len(getQuestLog) = Len(listRun.ids)

\* C15: when the questCount read or a getQuest read of the list model throws,
\* the listing is aborted: items is the empty list, error is the failure
\* message, loading is false, and no read beyond the failed one has been
\* issued.
C15_ReadFailureAbortsListing ==
  (page = "list" /\ listRun.end \in {"countThrow", "readThrow"}) =>
    /\ items = <<>>
    /\ error # None /\ error[1] \in {"rpc down", "obj"}
    /\ loading = FALSE
    /\ listRun.pc = "done"
    /\ Len(getQuestLog) = listRun.k
    /\ Len(fetchLog) <= Len(listRun.arr)

C15_Witness ==
  /\ page = "list" /\ phase = "mounted" /\ listRun.end = "readThrow"
  /\ Len(listRun.ids) = 2 /\ listRun.k = 2
  /\ Len(listRun.arr) = 1 /\ ~listRun.arr[1].cancelled

\* C16: in the Grove list model a quest whose metadata step failed (response
\* not OK, fetch rejected, body not JSON) is still pushed with its record
\* fields, the title "Quest #<id>" and an empty description; the loop goes on
\* to the next id; the page error is set by nothing but a failed read; and
\* the quest is in items when the listing ends, unless it is cancelled.
C16_MetadataFailureKeepsQuest ==
  (page = "list" /\ variant = "grove") =>
    /\ Len(listRun.metaEnds) = Len(listRun.arr)
    /\ error # None => listRun.end \in {"countThrow", "readThrow"}
    /\ \A k \in DOMAIN listRun.arr :
         listRun.metaEnds[k] \in {"notOk", "fetchReject", "jsonThrow"} =>
           /\ listRun.arr[k].id = listRun.ids[k]
           /\ listRun.arr[k].cid = fetchLog[Cardinality({j \in 1..k : listRun.metaEnds[j] # "noFetch"})]
           /\ listRun.arr[k].title = "Quest #" \o ToString(listRun.ids[k])
           /\ listRun.arr[k].description = ""
           /\ listRun.k > k \/ listRun.pc = "done"
           /\ (listRun.end = "ok" /\ phase = "mounted" /\ ~listRun.arr[k].cancelled)
                => \E j \in DOMAIN items : items[j] = listRun.arr[k]

C16_Witness ==
  /\ page = "list" /\ variant = "grove" /\ phase = "mounted"
  /\ listRun.end = "ok" /\ error = None
  /\ listRun.metaEnds = <<"jsonThrow", "ok">>
  /\ Len(items) = 2

\* C17: every failure of the creation flow (the pin request rejects or
\* answers without a cid, the encoding throws, the wallet or transaction
\* fails) leaves loading = false, no prepared transaction call and no request
\* in flight; a pin request is issued only by the submit action.
C17_FailureResetsCreateFlow ==
  [][/\ (page = "create" /\ createRun'.end \in {"pinReject", "noCid", "throw", "txError"}) =>
          /\ loading' = FALSE
          /\ transactionCalls' = <<>>
          /\ createRun'.pc = "idle"
     /\ (page = "create" /\ pinLog' # pinLog) =>
          /\ createRun.pc \in {"idle", "succeeded"} /\ createRun'.pc = "pin"
          /\ Len(pinLog') = Len(pinLog) + 1]_vars

C17_Witness ==
  /\ page = "create" /\ createRun.end = "txError"
  /\ Len(pinLog) = 1 /\ loading = FALSE /\ transactionCalls = <<>>

\* C18: POST /api/pin answers every request it has finished handling, with
\* either {cid} and status 200, when the body parsed and pinJson resolved, or
\* {error: <non-empty message>} and status 500, when either threw; never with
\* both fields, and never without a response.
C18_PinAnswersCidOrError ==
  page = "api" =>
    /\ apiRun.pc = "done" <=> apiResponse # None
    /\ apiResponse # None =>
         \/ /\ apiResponse[1].status = 200
            /\ apiResponse[1].cid # None /\ apiResponse[1].error = None
            /\ apiRun.body = "json"
         \/ /\ apiResponse[1].status = 500
            /\ apiResponse[1].error # None /\ apiResponse[1].error[1] # ""
            /\ apiResponse[1].cid = None

C18_Witness ==
  /\ page = "api" /\ apiRun.pc = "done" /\ apiRun.body = "json"
  /\ apiResponse = Some([status |-> 500, cid |-> None, error |-> Some("pin failed")])

\* C19: getActiveChain returns the main network exactly when NEXT_PUBLIC_CHAIN
\* is "base" or "mainnet" and the test network otherwise (unset and empty
\* included); QUESTBOARD_ADDRESS is NEXT_PUBLIC_QUESTBOARD_ADDRESS when that is
\* set and not empty, and the fixed literal otherwise.
C19_ChainConfigFollowsEnv ==
  page = "config" =>
    /\ activeChain # None =>
         /\ activeChain[1] \in {"base", "baseSepolia"}
         /\ activeChain[1] = "base" <=>
              (env.NEXT_PUBLIC_CHAIN = Some("base") \/ env.NEXT_PUBLIC_CHAIN = Some("mainnet"))
    /\ questboardAddress # None =>
         questboardAddress[1] =
           IF env.NEXT_PUBLIC_QUESTBOARD_ADDRESS \in {None, Some("")}
           THEN "0x24F1380D389Eb506dC8E19C777fB3078C31617a4"
           ELSE env.NEXT_PUBLIC_QUESTBOARD_ADDRESS[1]

C19_Witness ==
  /\ page = "config"
  /\ env.NEXT_PUBLIC_CHAIN = Some("mainnet") /\ activeChain = Some("base")
  /\ env.NEXT_PUBLIC_QUESTBOARD_ADDRESS = Some("")
  /\ questboardAddress = Some("0x24F1380D389Eb506dC8E19C777fB3078C31617a4")

\* What each prize input shows at 5 decimals, as typed and after the round
\* trip through floor(eth * 1e18) and / 1e18.
TypedDisplay == [s \in PrizeInputs |-> ToFixed(ParseFloat(s).abs, 5)]
RoundTripDisplay == [s \in PrizeInputs |-> ToFixed(PrizeEth(ValueWei(s)), 5)]

\* C20: the value attached to a prepared createQuest call, divided by 10^18
\* again, displays at 5 decimal places as the prize that was typed.
C20_PrizeRoundTrip ==
  (page = "create" /\ transactionCalls # <<>>) =>
    /\ transactionCalls[1].value = ValueWei(createRun.prize)
    /\ RoundTripDisplay[createRun.prize] = TypedDisplay[createRun.prize]

\* floor(prize * 10^18) taken on the decimal the input denotes, without
\* rounding: digits * 10^(18 - scale).
ExactWei ==
  [s \in PrizeInputs |->
     MulPow10(FromDecimalDigits(DecimalOf(s).digits), 18 - DecimalOf(s).scale)]

\* C21: a successful preparation of the creation flow leaves exactly one
\* transaction call, addressed to QUESTBOARD_ADDRESS, whose data encodes
\* createQuest(cid, floor(deadlineMs / 1000)) with the cid the pin request
\* returned and whose value is floor(prize * 10^18); the pin request was
\* issued before the call was prepared, and a pin answer without a cid
\* prepares no call.
C21_PreparedCallIsCreateQuest ==
  page = "create" =>
    /\ transactionCalls # <<>> =>
         /\ Len(transactionCalls) = 1
         /\ transactionCalls[1].to = "QUESTBOARD_ADDRESS"
         /\ transactionCalls[1].data =
              <<"createQuest", "QmPin", DateGetTime(createRun.deadline)[1] \div 1000>>
         /\ transactionCalls[1].value = ExactWei[createRun.prize]
         /\ Len(pinLog) >= 1
         /\ pinLog[Len(pinLog)] =
              [title |-> createRun.title, description |-> createRun.description]
    /\ createRun.end = "noCid" => transactionCalls = <<>>

WinnerRequests == SelectSeq(walletLog, LAMBDA c : c.data[1] = "selectWinners")
CommaCount(s) == Cardinality({k \in DOMAIN s : s[k] = ","})
RECURSIVE Flatten(_)
Flatten(ws) == IF ws = <<>> THEN <<>> ELSE Head(ws) \o Flatten(Tail(ws))
IsTrimmedPiece(w) ==
  /\ \A k \in DOMAIN w : w[k] # ","
  /\ w # <<>> => (w[1] # " " /\ w[Len(w)] # " ")
WinnerListOf(text, winners) ==
  /\ Len(winners) = CommaCount(text) + 1
  /\ \A k \in DOMAIN winners : IsTrimmedPiece(winners[k])
  /\ Flatten(winners) = SelectSeq(text, LAMBDA c : c \notin {",", " "})

\* C23 as stated: a cancelled or empty prompt issues no wallet request;
\* otherwise the list has one trimmed entry per comma plus one, exactly one
\* eth_sendTransaction encoding selectWinners(id, list) is requested, and the
\* announcement is composed only when that request returned a truthy
\* response.
C23_OneRequestPerSelection ==
  page = "detail" =>
    \A i \in DOMAIN winnerRuns :
      LET r == winnerRuns[i] IN
        IF r.input = None \/ r.input[1] = <<>>
        THEN r.requests = 0 /\ r.cast = None /\ r.pc = "done"
        ELSE /\ WinnerListOf(r.input[1], r.winners)
             /\ r.requests = 1
             /\ \E j \in DOMAIN WinnerRequests :
                  WinnerRequests[j] = [to |-> "QUESTBOARD_ADDRESS",
                                       data |-> <<"selectWinners", r.id, r.winners>>]
             /\ r.cast # None => r.end = "sent"

\* C23 as amended: as above, but the request is issued only when the encoder
\* accepted the list (every entry an address) and a wallet provider is
\* present; a run issues at most one request, and none in the other cases.
C23_AtMostOneRequestPerSelection ==
  page = "detail" =>
    /\ Len(WinnerRequests) = Cardinality({i \in DOMAIN winnerRuns : winnerRuns[i].requests = 1})
    /\ \A i \in DOMAIN winnerRuns :
         LET r == winnerRuns[i] IN
           IF r.input = None \/ r.input[1] = <<>>
           THEN r.requests = 0 /\ r.cast = None /\ r.pc = "done" /\ r.end = "noInput"
           ELSE /\ WinnerListOf(r.input[1], r.winners)
                /\ r.requests \in {0, 1}
                /\ r.requests = 0 <=> r.end \in {"encodeThrow", "noWallet"}
                /\ r.end = "encodeThrow" <=>
                     \E k \in DOMAIN r.winners : r.winners[k] \notin {<<"0x1">>, <<"0x2">>}
                /\ r.requests = 1 =>
                     \E j \in DOMAIN WinnerRequests :
                       WinnerRequests[j] = [to |-> "QUESTBOARD_ADDRESS",
                                            data |-> <<"selectWinners", r.id, r.winners>>]
                /\ r.cast # None <=> r.end = "sent"
                /\ r.cast # None => r.cast[1] = [id |-> r.id, winners |-> r.winners]

C23_Witness ==
  /\ page = "detail" /\ Len(winnerRuns) = 1
  /\ winnerRuns[1].input = Some(<<" ", "0x1", ",", "0x2", " ">>)
  /\ winnerRuns[1].winners = <<<<"0x1">>, <<"0x2">>>>
  /\ winnerRuns[1].end = "sent" /\ winnerRuns[1].cast # None
  /\ Len(WinnerRequests) = 1

\* C24: in the quest read model, whenever loading is false the run for the
\* current questId has settled, and an error is present only when that run
\* failed: the settling of a superseded run neither ends the loading state
\* nor leaves its error, while the read for the current id is in flight.
C24_LoadingFalseOnlyWhenCurrentSettled ==
  (OnDetail /\ runs # <<>>) =>
    /\ ~loading => CurrentRun.pc = "done"
    /\ error # None => CurrentRun.end \in {"readThrow", "fetchReject", "jsonThrow"}

\* C25: while the Grove detail page is mounted and shows a loaded quest that
\* is neither finalized nor cancelled, in every state where the clock is past
\* the quest's deadline the status shown is "Ended" and the submission form
\* is not offered, also when the deadline passed after the record was loaded.
C25_GatingFollowsClock ==
  (/\ page = "detail" /\ variant = "grove" /\ phase = "mounted" /\ View = "content"
   /\ quest # None /\ ~quest[1].finalized /\ ~quest[1].cancelled
   /\ FloorSeconds(now) > quest[1].deadline) =>
    /\ DisplayedStatus = {"Ended"}
    /\ ~SubmissionForm

\* C26: in the creation flow, in the step that encodes the createQuest call,
\* the deadline argument (seconds) is at least 60 seconds after the clock of
\* that step: the deadline gate is taken against the time of submission, not
\* only against the time the deadline field was last edited.
C26_DeadlineGateAtSubmission ==
  [][(page = "create" /\ transactionCalls = <<>> /\ transactionCalls' # <<>>) =>
       transactionCalls'[1].data[3] * 1000 >= now + 60000]_vars

\* C27: in the creation flow and in the Grove submission flow, whenever a
\* prepared transaction call is pending (transactionCalls is not empty) the
\* form fields are those that were pinned and encoded: title and description
\* are the pinned ones, prize and deadline those the call was encoded from,
\* and the link is the pinned one.
C27_PreparedCallMatchesFields ==
  /\ (page = "create" /\ phase = "mounted" /\ transactionCalls # <<>>) =>
       /\ pinLog[Len(pinLog)] = [title |-> title, description |-> description]
       /\ prize = createRun.prize
       /\ deadline = createRun.deadline
  /\ (page = "detail" /\ variant = "grove" /\ phase = "mounted" /\ transactionCalls # <<>>) =>
       pinLog[Len(pinLog)] = [link |-> link]

\* C28: the result of the quest read model is a proper tri-state: in every
\* state with loading = false exactly one of error and the quest record is
\* present.
C28_TriState ==
  (OnDetail /\ ~loading) => ((error # None) # (quest # None))

\* C29: the winner-selection control is never rendered for a quest whose
\* record has cancelled = true, even when the viewer is the creator, the
\* deadline has passed and the quest is not finalized.
C29_NoWinnerControlWhenCancelled ==
  (quest # None /\ quest[1].cancelled) => ~WinnerControl

\* C30: when every issued contract read and content-store fetch is answered,
\* the detail read model and the list model each reach loading = false; and
\* the busy flag of a flow (loading of the create form, submitting of the
\* submission form) is true only while its preparation is in flight or its
\* prepared call is with the wallet.
C30_LoadingEndsBusyOnlyWhilePending ==
  /\ [](page \in {"detail", "list"} => <>(~loading))
  /\ []((page = "create" /\ loading) => createRun.pc \in {"pin", "prepared"})
  /\ []((page = "detail" /\ submitting) => submitRun.pc \in {"pin", "prepared", "wallet"})

C30_Witness ==
  /\ page = "detail" /\ variant = "grove" /\ Len(runs) = 2
  /\ \A i \in DOMAIN runs : runs[i].pc = "done"
  /\ ~loading /\ submitRun.end = "txError" /\ ~submitting

=============================================================================
